---------------------------- MODULE Spec2Model ----------------------------
(***************************************************************************)
(* A model of the rust_gpt codec library: the little-endian byte cursor,   *)
(* the PartUUID codec, the GPT header codec, the protective MBR codec, the *)
(* partition entry table codec and the GuidPartTable facade.               *)
(*                                                                         *)
(* Representation.  A byte is a number in 0..255.  A buffer (&[u8],        *)
(* Vec<u8>, [u8; N]) is a sequence of bytes; Rust's data[i] is data[i+1]   *)
(* here.  A u16/u32/u64 is the tuple of its base-256 digits, most          *)
(* significant digit first (0x00010000 is <<0, 1, 0, 0>>), because the     *)
(* values of these types do not fit the model checker's integers.  A       *)
(* char is its code point.  Result<T, GptError> is a record tagged "Ok"    *)
(* or "Err"; a call that panics (slice out of range, unwrap of None)       *)
(* yields the record tagged "Panic".                                       *)
(***************************************************************************)
EXTENDS Integers, Sequences, FiniteSets, TLC

VARIABLES
    lbs,      \* GuidPartTable.lbs, the facade's logical block size
    hpc,      \* header harness: position of the caller
    data,     \* the buffer handed to parse_header
    hdr,      \* what parse_header returned
    out,      \* what serialize_header returned (then CRC-patched by the caller)
    hdr2,     \* what parse_header returned on out
    upc,      \* GUID harness: position of the caller
    raw,      \* the byte slice handed to PartUUID::try_from
    uuid,     \* what PartUUID::try_from returned
    text,     \* the text handed to PartUUID::from_str
    parsed,   \* what PartUUID::from_str returned
    mpc,      \* MBR harness: position of the caller
    mdata,    \* the buffer handed to parser_mbr
    mbr,      \* a ProtectiveMbr result
    large,    \* what is_large_disk returned
    tpc,      \* entry table harness: position of the caller
    tdata,    \* the buffer handed to parse_part_table
    tsize,    \* the part_entry_size handed to parse_part_table
    tbl,      \* what parse_part_table returned
    tsize2,   \* the part_entry_size handed to serialize_parse_entries
    tout,     \* what serialize_parse_entries returned
    tbl2      \* what parse_part_table returned on tout

vars == <<lbs, hpc, data, hdr, out, hdr2, upc, raw, uuid, text, parsed, mpc, mdata, mbr, large,
          tpc, tdata, tsize, tbl, tsize2, tout, tbl2>>
hdrVars == <<hpc, data, hdr, out, hdr2>>
uuidVars == <<upc, raw, uuid, text, parsed>>
mbrVars == <<mpc, mdata, mbr, large>>
tblVars == <<tpc, tdata, tsize, tbl, tsize2, tout, tbl2>>

-----------------------------------------------------------------------------
(* Values shared by all codecs *)

Ok(v) == [tag |-> "Ok", val |-> v]
Err(e) == [tag |-> "Err", err |-> e]
Panic == [tag |-> "Panic"]
NoResult == [tag |-> "None"]

Some(v) == [some |-> TRUE, val |-> v]
None == [some |-> FALSE]

\* data[a..b]
Slice(s, a, b) == SubSeq(s, a + 1, b)

\* vec![0; size]
Zeros(size) == [i \in 1..size |-> 0]

\* bytes[off..off + Len(src)].copy_from_slice(src)
CopyInto(bytes, off, src) ==
    [i \in 1..Len(bytes) |-> IF i > off /\ i <= off + Len(src) THEN src[i - off] ELSE bytes[i]]

Reverse(s) == [i \in 1..Len(s) |-> s[Len(s) + 1 - i]]

\* uN::to_le_bytes
to_le_bytes(w) == Reverse(w)

\* The u32 of a small natural number (usize as u32)
U32Of(n) == << n \div 16777216, (n \div 65536) % 256, (n \div 256) % 256, n % 256 >>

\* u32 as usize, for a value known to fit
RECURSIVE WordToNat(_)
WordToNat(w) == IF Len(w) = 0 THEN 0 ELSE WordToNat(SubSeq(w, 1, Len(w) - 1)) * 256 + w[Len(w)]

\* a <= b on unsigned words of one width
RECURSIVE WordLeq(_, _)
WordLeq(a, b) ==
    IF Len(a) = 0 THEN TRUE
    ELSE IF a[1] # b[1] THEN a[1] < b[1]
    ELSE WordLeq(Tail(a), Tail(b))

-----------------------------------------------------------------------------
(* parse.rs: LittleEndianBytes *)

\* LittleEndianBytes::from
From(value) == [data |-> value, cursor |-> 0]

skip(l, size) == [l EXCEPT !.cursor = @ + size]

\* Each reader yields the value returned and the cursor it leaves behind.
parse_u8(l) ==
    IF l.cursor < Len(l.data)
    THEN [ret |-> Some(l.data[l.cursor + 1]), ltbs |-> skip(l, 1)]
    ELSE [ret |-> None, ltbs |-> l]

parse_u16(l) ==
    IF l.cursor + 1 < Len(l.data)
    THEN [ret |-> Some(<< l.data[l.cursor + 2], l.data[l.cursor + 1] >>), ltbs |-> skip(l, 2)]
    ELSE [ret |-> None, ltbs |-> l]

parse_u32(l) ==
    IF l.cursor + 3 < Len(l.data)
    THEN [ret |-> Some(<< l.data[l.cursor + 4], l.data[l.cursor + 3],
                          l.data[l.cursor + 2], l.data[l.cursor + 1] >>),
          ltbs |-> skip(l, 4)]
    ELSE [ret |-> None, ltbs |-> l]

parse_u64(l) ==
    IF l.cursor + 7 < Len(l.data)
    THEN [ret |-> Some(<< l.data[l.cursor + 8], l.data[l.cursor + 7],
                          l.data[l.cursor + 6], l.data[l.cursor + 5],
                          l.data[l.cursor + 4], l.data[l.cursor + 3],
                          l.data[l.cursor + 2], l.data[l.cursor + 1] >>),
          ltbs |-> skip(l, 8)]
    ELSE [ret |-> None, ltbs |-> l]

\* copy_from::<N>(offset): the slice is taken at the absolute offset, the
\* cursor moves by N from where it stands.  The slice expression panics
\* when offset + N is beyond the buffer.
copy_from(l, N, offset) ==
    IF offset + N > Len(l.data)
    THEN [panic |-> TRUE]
    ELSE [panic |-> FALSE, ret |-> Slice(l.data, offset, offset + N), ltbs |-> skip(l, N)]

-----------------------------------------------------------------------------
(* The crc crate's CRC_32_ISO_HDLC, as check_crc32 uses it: reflected      *)
(* polynomial 0xEDB88320, initial value and final xor 0xFFFFFFFF.          *)

RECURSIVE XorN(_, _, _)
XorN(a, b, n) == IF n = 0 THEN 0 ELSE ((a + b) % 2) + 2 * XorN(a \div 2, b \div 2, n - 1)

Xor8(a, b) == XorN(a, b, 8)

CRC_POLY == <<237, 184, 131, 32>>

Shr1(c) ==
    << c[1] \div 2,
       (c[1] % 2) * 128 + c[2] \div 2,
       (c[2] % 2) * 128 + c[3] \div 2,
       (c[3] % 2) * 128 + c[4] \div 2 >>

XorWord(a, b) == [i \in 1..Len(a) |-> Xor8(a[i], b[i])]

CrcBitStep(c) == IF c[4] % 2 = 1 THEN XorWord(Shr1(c), CRC_POLY) ELSE Shr1(c)

RECURSIVE CrcBitSteps(_, _)
CrcBitSteps(c, n) == IF n = 0 THEN c ELSE CrcBitSteps(CrcBitStep(c), n - 1)

CrcTable == [i \in 0..255 |-> CrcBitSteps(<<0, 0, 0, i>>, 8)]

CrcByteStep(c, b) ==
    LET t == CrcTable[Xor8(c[4], b)]
    IN  << t[1], Xor8(t[2], c[1]), Xor8(t[3], c[2]), Xor8(t[4], c[3]) >>

\* The register after bytes[lo..hi]; the left half is computed before the
\* right half is entered.
RECURSIVE CrcUpdate(_, _, _, _)
CrcUpdate(bytes, lo, hi, c) ==
    IF lo > hi THEN c
    ELSE IF lo = hi THEN CrcByteStep(c, bytes[lo])
    ELSE LET mid == (lo + hi) \div 2
             left == CrcUpdate(bytes, lo, mid, c)
         IN  IF Len(left) = 4 THEN CrcUpdate(bytes, mid + 1, hi, left) ELSE left

\* crc.checksum(bytes)
checksum(bytes) ==
    LET c == CrcUpdate(bytes, 1, Len(bytes), <<255, 255, 255, 255>>)
    IN  << 255 - c[1], 255 - c[2], 255 - c[3], 255 - c[4] >>

-----------------------------------------------------------------------------
(* uuid.rs: PartUUID *)

UUID_SIZE == 16

HYPHEN == 45

\* (0x41..0x5A).contains(byte) || (0x61..0x7A).contains(byte): Rust's a..b
\* excludes b
InLetterRanges(byte) == (65 <= byte /\ byte < 90) \/ (97 <= byte /\ byte < 122)

\* impl TryFrom<&[u8]> for PartUUID
PartUUID_try_from(value) ==
    IF \/ Len(value) # UUID_SIZE
       \/ Cardinality({i \in 1..Len(value) : InLetterRanges(value[i])}) < Len(value)
    THEN Err("PartUUID")
    ELSE Ok(value)

\* One hexadecimal digit as a char: '0'..'9', 'a'..'f'
HexDigit(d) == IF d < 10 THEN 48 + d ELSE 87 + d

\* format!("{:x}", byte): lower-case hexadecimal, no padding
LowerHex(byte) ==
    IF byte < 16 THEN << HexDigit(byte) >>
    ELSE << HexDigit(byte \div 16), HexDigit(byte % 16) >>

\* impl Display for PartUUID (to_string)
PartUUID_to_string(u) ==
    LET left == Slice(u, 0, UUID_SIZE \div 2)
        right == Slice(u, UUID_SIZE \div 2, UUID_SIZE)
    IN  LowerHex(left[4]) \o LowerHex(left[3]) \o LowerHex(left[2]) \o LowerHex(left[1])
        \o << HYPHEN >> \o LowerHex(left[6]) \o LowerHex(left[5])
        \o << HYPHEN >> \o LowerHex(left[8]) \o LowerHex(left[7])
        \o << HYPHEN >> \o LowerHex(right[1]) \o LowerHex(right[2])
        \o << HYPHEN >> \o LowerHex(right[3]) \o LowerHex(right[4]) \o LowerHex(right[5])
        \o LowerHex(right[6]) \o LowerHex(right[7]) \o LowerHex(right[8])

\* validate_guid_byte: ch as u8 keeps the low eight bits
validate_guid_byte(ch) ==
    LET byte == ch % 256
    IN  IF InLetterRanges(byte) THEN Ok(byte) ELSE Err("PartUUID")

\* s.chars().filter(|ch| ch.ne(&'-'))
RECURSIVE WithoutHyphens(_)
WithoutHyphens(s) ==
    IF Len(s) = 0 THEN << >>
    ELSE IF Head(s) = HYPHEN THEN WithoutHyphens(Tail(s))
    ELSE << Head(s) >> \o WithoutHyphens(Tail(s))

\* impl FromStr for PartUUID
PartUUID_from_str(s) ==
    LET chars == WithoutHyphens(s)
        left == Slice(chars, 0, UUID_SIZE \div 2)
        right == Slice(chars, UUID_SIZE \div 2, UUID_SIZE)
        picked == << left[4], left[3], left[2], left[1], left[6], left[5], left[8], left[7] >>
                  \o right
    IN  IF Len(chars) # UUID_SIZE THEN Err("PartUUID")
        ELSE IF \E i \in 1..UUID_SIZE : validate_guid_byte(picked[i]).tag = "Err"
        THEN Err("PartUUID")
        ELSE Ok([i \in 1..UUID_SIZE |-> validate_guid_byte(picked[i]).val])

-----------------------------------------------------------------------------
(* hdr.rs: Header *)

SIGNATURE == <<84, 82, 65, 80, 32, 73, 70, 69>>     \* 0x5452415020494645
SIGNATURE_OFFSET == 0
SIGNATURE_SIZE == 8
REVISION == <<0, 1, 0, 0>>                          \* 0x00010000
REVISION_OFFSET == 8
HDR_SIZE_OFFSET == 12
HDR_CRC32_OFFSET == 16
HDR_CRC32_SIZE == 4
RESERVED_OFFSET == 20
MYLBA_OFFSET == 24
ALTERNATE_LBA_OFFSET == 32
FIRST_USABLE_LBA_OFFSET == 40
LAST_USABLE_LBA_OFFSET == 48
DISK_GUID_OFFSET == 56
DISK_GUID_SIZE == 16
PARTITION_ENTRY_LBA_OFFSET == 72
NUMBER_OF_PARTITION_ENTRIES_OFFSET == 80
SIZE_OF_PARTITION_ENTRY_OFFSET == 84
PARTITION_ENTRY_ARRAY_CRC32_OFFSET == 88
MIN_HEADER_SIZE == 92

OkUnit == Ok(<< >>)

Header_check_signature(signature) ==
    IF signature = SIGNATURE THEN OkUnit ELSE Err("HdrSignature")

check_revision(revision) ==
    IF revision = REVISION THEN OkUnit ELSE Err("HdrRevision")

check_header_size(header_size, lba_size) ==
    IF WordLeq(U32Of(MIN_HEADER_SIZE), header_size) /\ WordLeq(header_size, lba_size)
    THEN OkUnit
    ELSE Err("HdrSize")

check_crc32(bytes, crc32) ==
    IF crc32 = checksum(bytes) THEN OkUnit ELSE Err("HdrCrc32")

\* impl Serialize for Header
Header_serialize(h, size) ==
    LET b0 == Zeros(size)
        b1 == CopyInto(b0, SIGNATURE_OFFSET, h.signature)
        b2 == CopyInto(b1, REVISION_OFFSET, to_le_bytes(h.revision))
        b3 == CopyInto(b2, HDR_SIZE_OFFSET, to_le_bytes(h.header_size))
        b4 == CopyInto(b3, HDR_CRC32_OFFSET, to_le_bytes(h.header_crc32))
        b5 == CopyInto(b4, RESERVED_OFFSET, to_le_bytes(h.reserved))
        b6 == CopyInto(b5, MYLBA_OFFSET, to_le_bytes(h.my_lba))
        b7 == CopyInto(b6, ALTERNATE_LBA_OFFSET, to_le_bytes(h.alternate_lba))
        b8 == CopyInto(b7, FIRST_USABLE_LBA_OFFSET, to_le_bytes(h.first_usable_lba))
        b9 == CopyInto(b8, LAST_USABLE_LBA_OFFSET, to_le_bytes(h.last_usable_lba))
        b10 == CopyInto(b9, DISK_GUID_OFFSET, h.disk_guid)
        b11 == CopyInto(b10, PARTITION_ENTRY_LBA_OFFSET, to_le_bytes(h.part_entry_lba))
        b12 == CopyInto(b11, NUMBER_OF_PARTITION_ENTRIES_OFFSET, to_le_bytes(h.num_part_entries))
        b13 == CopyInto(b12, SIZE_OF_PARTITION_ENTRY_OFFSET, to_le_bytes(h.part_entry_size))
    IN  CopyInto(b13, PARTITION_ENTRY_ARRAY_CRC32_OFFSET, to_le_bytes(h.crc32_part_entry_array))

\* impl Deserialize for Header.  s1..s15 are the cursor reads in program
\* order, each starting from the cursor the one before left; the IF chain
\* below is the order in which the function returns or panics.
Header_deserialize(d) ==
    LET s1 == copy_from(From(d), SIGNATURE_SIZE, SIGNATURE_OFFSET)   \* signature
        s2 == parse_u64(s1.ltbs)              \* the value handed to check_signature
        s3 == parse_u32(s2.ltbs)              \* revision
        s4 == parse_u32(s3.ltbs)              \* header_size
        s5 == parse_u32(s4.ltbs)              \* header_crc32
        header_size == s4.ret.val
        bytes == CopyInto(Slice(d, 0, WordToNat(header_size)),
                          HDR_CRC32_OFFSET, Zeros(HDR_CRC32_SIZE))
        s6 == parse_u32(s5.ltbs)              \* reserved
        s7 == parse_u64(s6.ltbs)              \* my_lba
        s8 == parse_u64(s7.ltbs)              \* alternate_lba
        s9 == parse_u64(s8.ltbs)              \* first_usable_lba
        s10 == parse_u64(s9.ltbs)             \* last_usable_lba
        s11 == copy_from(s10.ltbs, DISK_GUID_SIZE, DISK_GUID_OFFSET)
        disk_guid == PartUUID_try_from(s11.ret)
        s12 == parse_u64(s11.ltbs)            \* part_entry_lba
        s13 == parse_u32(s12.ltbs)            \* num_part_entries
        s14 == parse_u32(s13.ltbs)            \* part_entry_size
        s15 == parse_u32(s14.ltbs)            \* crc32_part_entry_array
    IN  IF s1.panic THEN Panic
        ELSE IF ~s2.ret.some THEN Panic
        ELSE IF Header_check_signature(s2.ret.val).tag = "Err"
        THEN Header_check_signature(s2.ret.val)
        ELSE IF ~s3.ret.some THEN Panic
        ELSE IF check_revision(s3.ret.val).tag = "Err" THEN check_revision(s3.ret.val)
        ELSE IF ~s4.ret.some THEN Panic
        ELSE IF check_header_size(header_size, U32Of(Len(d))).tag = "Err"
        THEN check_header_size(header_size, U32Of(Len(d)))
        ELSE IF ~s5.ret.some THEN Panic
        ELSE IF check_crc32(bytes, s5.ret.val).tag = "Err" THEN Err("HdrCrc32")
        ELSE IF \E s \in {s6, s7, s8, s9, s10} : ~s.ret.some THEN Panic
        ELSE IF s11.panic THEN Panic
        ELSE IF disk_guid.tag = "Err" THEN disk_guid
        ELSE IF \E s \in {s12, s13, s14, s15} : ~s.ret.some THEN Panic
        ELSE Ok([signature |-> s1.ret,
                 revision |-> s3.ret.val,
                 header_size |-> header_size,
                 header_crc32 |-> s5.ret.val,
                 reserved |-> s6.ret.val,
                 my_lba |-> s7.ret.val,
                 alternate_lba |-> s8.ret.val,
                 first_usable_lba |-> s9.ret.val,
                 last_usable_lba |-> s10.ret.val,
                 disk_guid |-> disk_guid.val,
                 part_entry_lba |-> s12.ret.val,
                 num_part_entries |-> s13.ret.val,
                 part_entry_size |-> s14.ret.val,
                 crc32_part_entry_array |-> s15.ret.val])

-----------------------------------------------------------------------------
(* gpt.rs: GuidPartTable *)

LogicalBlockSize == {512, 4096}

\* GuidPartTable::parse_header: self.lbs is not used
parse_header(self_lbs, d) == Header_deserialize(d)

\* GuidPartTable::serialize_header
serialize_header(self_lbs, header) == Header_serialize(header, self_lbs)

-----------------------------------------------------------------------------
(* Buffers handed to parse_header *)

\* How many multiples of 128 the inputs use for num_part_entries
MaxNpe == 1

EfiPart == <<69, 70, 73, 32, 80, 65, 82, 84>>       \* "EFI PART"
NotEfiPart == <<69, 70, 73, 32, 80, 65, 82, 85>>    \* "EFI PARU"
BadRevision == <<0, 2, 0, 0>>
Letters16 == [i \in 1..16 |-> 64 + i]               \* "ABCDEFGHIJKLMNOP"
GuidSamples == { Letters16, [Letters16 EXCEPT ![1] = 90], [Letters16 EXCEPT ![1] = 0] }

\* The little-endian word stored at d[off..off + n]
LeWord(d, off, n) == Reverse(Slice(d, off, off + n))

\* The first 92 bytes of a header in the wire layout of hdr.rs's offsets
WireFields(sig, rev, hs, crc, resv, guid, npe) ==
    sig \o to_le_bytes(rev) \o to_le_bytes(U32Of(hs)) \o to_le_bytes(crc) \o to_le_bytes(resv)
    \o to_le_bytes(<<0, 0, 0, 0, 0, 0, 0, 1>>)       \* my_lba
    \o to_le_bytes(<<0, 0, 0, 0, 0, 0, 255, 255>>)   \* alternate_lba
    \o to_le_bytes(<<0, 0, 0, 0, 0, 0, 0, 34>>)      \* first_usable_lba
    \o to_le_bytes(<<0, 0, 0, 0, 0, 0, 255, 222>>)   \* last_usable_lba
    \o guid
    \o to_le_bytes(<<0, 0, 0, 0, 0, 0, 0, 2>>)       \* part_entry_lba
    \o to_le_bytes(npe)
    \o to_le_bytes(U32Of(128))                       \* part_entry_size
    \o to_le_bytes(<<18, 52, 86, 120>>)              \* crc32_part_entry_array

\* The CRC-32 of the first n bytes of d with the CRC field zeroed
HeaderCrc(d, n) == checksum(CopyInto(Slice(d, 0, n), HDR_CRC32_OFFSET, Zeros(HDR_CRC32_SIZE)))

OffByOne(crc) == << crc[1], crc[2], crc[3], (crc[4] + 1) % 256 >>

\* A buffer of len >= 92 bytes in the wire layout; its CRC field holds the
\* CRC-32 of its first hs bytes (of all its bytes when hs is larger), or a
\* wrong value when crcOk is FALSE.
WireHeader(len, sig, rev, hs, crcOk, resv, guid, npe) ==
    LET body(crc) == WireFields(sig, rev, hs, crc, resv, guid, npe) \o Zeros(len - MIN_HEADER_SIZE)
        crc == HeaderCrc(body(<<0, 0, 0, 0>>), IF hs <= len THEN hs ELSE len)
    IN  body(IF crcOk THEN crc ELSE OffByOne(crc))

\* CRC-32 of any message followed by its own little-endian CRC-32
CRC_RESIDUE == <<33, 68, 223, 28>>                  \* 0x2144DF1C

\* A buffer of len >= 72 bytes holding, at the places Header::deserialize's
\* cursor reads them from, a signature (8..16), revision (16..20), size
\* (20..24) and checksum (24..28); the four bytes that end the summed range
\* are chosen so that the range's CRC-32 is the stored checksum.
ShiftedHeader(len, first8, hs, guid) ==
    LET body == first8 \o to_le_bytes(SIGNATURE) \o to_le_bytes(REVISION)
                \o to_le_bytes(U32Of(hs)) \o to_le_bytes(CRC_RESIDUE)
                \o Zeros(28) \o guid \o Zeros(len - 72)
    IN  IF hs <= len
        THEN CopyInto(body, hs - 4, to_le_bytes(HeaderCrc(body, hs - 4)))
        ELSE body

\* ShiftedHeader with first 8 bytes zero, accepted GUID bytes, and resv in
\* the four bytes the cursor reads as the reserved field (28..32)
ShiftedHeaderReserved(len, hs, resv) ==
    LET body == Zeros(8) \o to_le_bytes(SIGNATURE) \o to_le_bytes(REVISION)
                \o to_le_bytes(U32Of(hs)) \o to_le_bytes(CRC_RESIDUE)
                \o to_le_bytes(resv) \o Zeros(24) \o Letters16 \o Zeros(len - 72)
    IN  CopyInto(body, hs - 4, to_le_bytes(HeaderCrc(body, hs - 4)))

ReservedInputs(L) ==
    { ShiftedHeaderReserved(L, 92, resv) : resv \in {<<0, 0, 0, 1>>, <<255, 255, 255, 255>>} }

WireInputs(L) ==
    { WireHeader(len, sig, rev, hs, crcOk, <<0, 0, 0, 0>>, Letters16, U32Of(128)) :
        len \in {L, L + 1}, sig \in {EfiPart, NotEfiPart}, rev \in {REVISION, BadRevision},
        hs \in {91, 92, L, L + 1}, crcOk \in BOOLEAN }

WireVariants(L) ==
    { WireHeader(L, EfiPart, REVISION, 92, TRUE, resv, guid, U32Of(128 * k)) :
        resv \in {<<0, 0, 0, 0>>, <<0, 0, 0, 1>>}, guid \in GuidSamples, k \in 0..MaxNpe }

ShiftedInputs(L) ==
    { ShiftedHeader(len, first8, hs, guid) :
        len \in {96, L}, first8 \in {EfiPart, NotEfiPart, Zeros(8)},
        hs \in {92, 100, L}, guid \in GuidSamples }

ShortInputs(L) ==
    { Slice(WireHeader(L, EfiPart, REVISION, 92, TRUE, <<0, 0, 0, 0>>, Letters16, U32Of(128)), 0, n) :
        n \in {0, 7, 8, 15, 23, 91} }

HeaderInputs(L) ==
    WireInputs(L) \cup WireVariants(L) \cup ShiftedInputs(L) \cup ShortInputs(L) \cup ReservedInputs(L)

-----------------------------------------------------------------------------
(* A caller of the facade's header operations *)

InitHdr ==
    /\ hpc = "idle"
    /\ data = << >>
    /\ hdr = NoResult
    /\ out = << >>
    /\ hdr2 = NoResult

InitUuid ==
    /\ upc = "idle"
    /\ raw = << >>
    /\ uuid = NoResult
    /\ text = << >>
    /\ parsed = NoResult

InitMbr ==
    /\ mpc = "idle"
    /\ mdata = << >>
    /\ mbr = NoResult
    /\ large = FALSE

InitTbl ==
    /\ tpc = "idle"
    /\ tdata = << >>
    /\ tsize = 0
    /\ tbl = NoResult
    /\ tsize2 = 0
    /\ tout = NoResult
    /\ tbl2 = NoResult

\* GuidPartTable::new(lbs)
Init ==
    /\ lbs \in LogicalBlockSize
    /\ InitHdr
    /\ InitUuid
    /\ InitMbr
    /\ InitTbl

\* gpt.parse_header(&buffer)
ParseHeader ==
    /\ hpc = "idle"
    /\ \E d \in HeaderInputs(lbs) :
        /\ data' = d
        /\ hdr' = parse_header(lbs, d)
    /\ hpc' = "parsed"
    /\ UNCHANGED <<lbs, out, hdr2, uuidVars, mbrVars, tblVars>>

\* gpt.serialize_header(&header) on the header just parsed
SerializeHeader ==
    /\ hpc = "parsed"
    /\ hdr.tag = "Ok"
    /\ out' = serialize_header(lbs, hdr.val)
    /\ hpc' = "serialized"
    /\ UNCHANGED <<lbs, data, hdr, hdr2, uuidVars, mbrVars, tblVars>>

\* The caller writes the CRC-32 of the first header_size bytes of the
\* encoded buffer (CRC field zeroed) into its bytes 16..20.
RecomputeCrc ==
    /\ hpc = "serialized"
    /\ WordToNat(hdr.val.header_size) <= Len(out)
    /\ out' = CopyInto(out, HDR_CRC32_OFFSET,
                       to_le_bytes(HeaderCrc(out, WordToNat(hdr.val.header_size))))
    /\ hpc' = "patched"
    /\ UNCHANGED <<lbs, data, hdr, hdr2, uuidVars, mbrVars, tblVars>>

\* gpt.parse_header(&encoded)
ReparseHeader ==
    /\ hpc = "patched"
    /\ hdr2' = parse_header(lbs, out)
    /\ hpc' = "reparsed"
    /\ UNCHANGED <<lbs, data, hdr, out, uuidVars, mbrVars, tblVars>>

\* The caller drops what it holds and starts over.
ResetHeader ==
    /\ hpc # "idle"
    /\ hpc' = "idle"
    /\ data' = << >>
    /\ hdr' = NoResult
    /\ out' = << >>
    /\ hdr2' = NoResult
    /\ UNCHANGED <<lbs, uuidVars, mbrVars, tblVars>>

NextHdr == ParseHeader \/ SerializeHeader \/ RecomputeCrc \/ ReparseHeader \/ ResetHeader

SpecHdr == Init /\ [][NextHdr]_vars

-----------------------------------------------------------------------------
(* A caller of the PartUUID conversions *)

\* Bytes tried in place of one letter of a 16-byte value: around both
\* letter ranges' ends, and values whose hexadecimal form has one digit
ProbeBytes == {0, 10, 64, 65, 89, 90, 91, 96, 97, 121, 122, 123, 255}

RawInputs ==
    { [Letters16 EXCEPT ![p] = b] : p \in 1..UUID_SIZE, b \in ProbeBytes }
    \cup { Slice(Letters16, 0, n) : n \in {0, 15} }
    \cup { Letters16 \o << 81 >> }

LetterText(n) == [i \in 1..n |-> 65 + (i % 25)]

\* 8-4-4-4-12 hyphenation of a text of at least 20 characters
Hyphenated(t) ==
    Slice(t, 0, 8) \o << HYPHEN >> \o Slice(t, 8, 12) \o << HYPHEN >> \o Slice(t, 12, 16)
    \o << HYPHEN >> \o Slice(t, 16, 20) \o << HYPHEN >> \o Slice(t, 20, Len(t))

\* Characters tried in place of the first one: a letter, 'Z', a digit, and
\* U+0141, whose low eight bits are those of 'A'
ProbeChars == {66, 90, 52, 321}

TextInputs ==
    LET plain == { [LetterText(n) EXCEPT ![1] = c] : n \in {15, 16, 17, 31, 32, 33}, c \in ProbeChars }
    IN  plain
        \cup { << HYPHEN >> \o t \o << HYPHEN >> : t \in plain }
        \cup { Hyphenated(t) : t \in { u \in plain : Len(u) >= 31 } }
        \cup { << >>, << HYPHEN >> }

\* PartUUID::try_from(&bytes[..])
TryFrom ==
    /\ upc = "idle"
    /\ \E value \in RawInputs :
        /\ raw' = value
        /\ uuid' = PartUUID_try_from(value)
    /\ upc' = "built"
    /\ UNCHANGED <<lbs, text, parsed, hdrVars, mbrVars, tblVars>>

\* uuid.to_string()
Display ==
    /\ upc = "built"
    /\ uuid.tag = "Ok"
    /\ text' = PartUUID_to_string(uuid.val)
    /\ upc' = "shown"
    /\ UNCHANGED <<lbs, raw, uuid, parsed, hdrVars, mbrVars, tblVars>>

\* PartUUID::from_str(&shown)
FromShown ==
    /\ upc = "shown"
    /\ parsed' = PartUUID_from_str(text)
    /\ upc' = "reparsed"
    /\ UNCHANGED <<lbs, raw, uuid, text, hdrVars, mbrVars, tblVars>>

\* PartUUID::from_str(s) on a text of the caller's
FromStr ==
    /\ upc = "idle"
    /\ \E s \in TextInputs :
        /\ text' = s
        /\ parsed' = PartUUID_from_str(s)
    /\ upc' = "parsed"
    /\ UNCHANGED <<lbs, raw, uuid, hdrVars, mbrVars, tblVars>>

ResetUuid ==
    /\ upc # "idle"
    /\ upc' = "idle"
    /\ raw' = << >>
    /\ uuid' = NoResult
    /\ text' = << >>
    /\ parsed' = NoResult
    /\ UNCHANGED <<lbs, hdrVars, mbrVars, tblVars>>

NextUuid == TryFrom \/ Display \/ FromShown \/ FromStr \/ ResetUuid

SpecUuid == Init /\ [][NextUuid]_vars

-----------------------------------------------------------------------------
(* mbr.rs: ProtectiveMbr and MbrPartRecord *)

BOOT_CODE_OFFSET == 0
BOOT_CODE_SIZE == 440
DISK_SIGNATURE_OFFSET == 440
DISK_SIGNATURE_SIZE == 4
DISK_SIGNATURE == <<0, 0, 0, 0>>
UNKNOWN == <<0, 0>>
PART_RECORD_OFFSET == 446
PART_RECORD_NUM == 4
PART_RECORD_SIZE == 16
MBR_SIGNATURE == <<170, 85>>                        \* 0xAA55

STARTING_CHS_OFFSET == 1
STARTING_CHS_SIZE == 3
STARTING_CHS == <<0, 2, 0>>
OSTYPE == 238                                       \* 0xEE
ENDING_CHS_OFFSET == 5
ENDING_CHS_SIZE == 3
ENDING_CHS == STARTING_CHS
MAX_ENDING_CHD == <<255, 255, 255>>
STARTING_LBA == <<0, 0, 0, 1>>
MAX_SIZE_IN_LBA == <<255, 255, 255, 255>>

check_disk_signature(disk_signature) ==
    IF disk_signature = DISK_SIGNATURE THEN OkUnit ELSE Err("MbrDiskSignature")

check_unknown(unknown) ==
    IF unknown = UNKNOWN THEN OkUnit ELSE Err("MbrUnknownNonZero")

ProtectiveMbr_check_signature(signature) ==
    IF signature = MBR_SIGNATURE THEN OkUnit ELSE Err("MbrSignature")

check_starting_chs(starting_chs) ==
    IF starting_chs = STARTING_CHS THEN OkUnit ELSE Err("MbrPRStartingChs")

check_ostype_always_ok(ostype) == OkUnit

check_ostype(ostype) ==
    IF ostype = OSTYPE THEN OkUnit ELSE Err("MbrPROsType")

check_ending_chs(ending_chs) ==
    IF ending_chs = ENDING_CHS THEN OkUnit ELSE Err("MbrPREndingChs")

check_starting_lba(starting_lba) ==
    IF starting_lba = STARTING_LBA THEN OkUnit ELSE Err("MbrPRStartingLba")

\* impl Deserialize for MbrPartRecord
MbrPartRecord_deserialize(d) ==
    LET s1 == parse_u8(From(d))                                      \* boot_indicator
        s2 == copy_from(s1.ltbs, STARTING_CHS_SIZE, STARTING_CHS_OFFSET)
        s3 == parse_u8(s2.ltbs)                                      \* ostype
        s4 == copy_from(s3.ltbs, ENDING_CHS_SIZE, ENDING_CHS_OFFSET)
        s5 == parse_u32(s4.ltbs)                                     \* starting_lba
        s6 == parse_u32(s5.ltbs)                                     \* size_in_lba
    IN  IF ~s1.ret.some THEN Panic
        ELSE IF s2.panic THEN Panic
        ELSE IF check_starting_chs(s2.ret).tag = "Err" THEN check_starting_chs(s2.ret)
        ELSE IF ~s3.ret.some THEN Panic
        ELSE IF check_ostype(s3.ret.val).tag = "Err" THEN check_ostype(s3.ret.val)
        ELSE IF s4.panic THEN Panic
        ELSE IF check_ending_chs(s4.ret).tag = "Err" THEN check_ending_chs(s4.ret)
        ELSE IF ~s5.ret.some THEN Panic
        ELSE IF check_starting_lba(s5.ret.val).tag = "Err" THEN check_starting_lba(s5.ret.val)
        ELSE IF ~s6.ret.some THEN Panic
        ELSE Ok([boot_indicator |-> s1.ret.val,
                 starting_chs |-> s2.ret,
                 ostype |-> s3.ret.val,
                 ending_chs |-> s4.ret,
                 starting_lba |-> s5.ret.val,
                 size_in_lba |-> s6.ret.val])

\* The loop over part_records in ProtectiveMbr::deserialize, from slot
\* index on: the records decoded and the cursor left, or the first panic or
\* error.
RECURSIVE PartRecordsFrom(_, _, _)
PartRecordsFrom(l, index, records) ==
    IF index = PART_RECORD_NUM THEN [res |-> Ok(records), ltbs |-> l]
    ELSE LET c == copy_from(l, PART_RECORD_SIZE, PART_RECORD_OFFSET + PART_RECORD_SIZE * index)
             rd == MbrPartRecord_deserialize(c.ret)
         IN  IF c.panic THEN [res |-> Panic]
             ELSE IF rd.tag # "Ok" THEN [res |-> rd]
             ELSE PartRecordsFrom(c.ltbs, index + 1, Append(records, rd.val))

\* impl Deserialize for ProtectiveMbr
ProtectiveMbr_deserialize(d) ==
    LET s1 == copy_from(From(d), BOOT_CODE_SIZE, BOOT_CODE_OFFSET)
        s2 == copy_from(s1.ltbs, DISK_SIGNATURE_SIZE, DISK_SIGNATURE_OFFSET)
        s3 == parse_u16(s2.ltbs)                                     \* unknown
        s4 == PartRecordsFrom(s3.ltbs, 0, << >>)
        s5 == parse_u16(s4.ltbs)                                     \* signature
    IN  IF s1.panic THEN Panic
        ELSE IF s2.panic THEN Panic
        ELSE IF check_disk_signature(s2.ret).tag = "Err" THEN check_disk_signature(s2.ret)
        ELSE IF ~s3.ret.some THEN Panic
        ELSE IF check_unknown(s3.ret.val).tag = "Err" THEN check_unknown(s3.ret.val)
        ELSE IF s4.res.tag # "Ok" THEN s4.res
        ELSE IF ~s5.ret.some THEN Panic
        ELSE IF ProtectiveMbr_check_signature(s5.ret.val).tag = "Err"
        THEN ProtectiveMbr_check_signature(s5.ret.val)
        ELSE Ok([boot_code |-> s1.ret,
                 disk_signature |-> s2.ret,
                 unknown |-> s3.ret.val,
                 part_records |-> s4.res.val,
                 signature |-> s5.ret.val])

is_large_disk_either(self) ==
    LET first_record == self.part_records[1]
    IN  first_record.ending_chs = MAX_ENDING_CHD \/ first_record.size_in_lba = MAX_SIZE_IN_LBA

\* ProtectiveMbr::is_large_disk; part_records[0] is part_records[1] here
is_large_disk(self) ==
    LET first_record == self.part_records[1]
    IN  first_record.ending_chs = MAX_ENDING_CHD /\ first_record.size_in_lba = MAX_SIZE_IN_LBA

\* GuidPartTable::parser_mbr: self.lbs is not used
parser_mbr(self_lbs, d) == ProtectiveMbr_deserialize(d)

-----------------------------------------------------------------------------
(* A caller of the facade's MBR operations *)

\* OS type bytes tried besides 0xEE: 0..MaxOtherOsType
MaxOtherOsType == 0

OsTypes == {OSTYPE} \cup 0..MaxOtherOsType

\* The 16 bytes of a partition record
RecordBytes(boot, schs, ostype, echs, slba, size) ==
    << boot >> \o schs \o << ostype >> \o echs \o to_le_bytes(slba) \o to_le_bytes(size)

ProtectiveRecord(ostype) ==
    RecordBytes(0, STARTING_CHS, ostype, ENDING_CHS, STARTING_LBA, <<0, 0, 255, 255>>)

\* Slot 0's record, with one of its fields changed
Record0Variant(v, ostype) ==
    CASE v = "boot" -> RecordBytes(128, STARTING_CHS, ostype, ENDING_CHS, STARTING_LBA, <<0, 0, 255, 255>>)
      [] v = "schs" -> RecordBytes(0, <<0, 0, 0>>, ostype, ENDING_CHS, STARTING_LBA, <<0, 0, 255, 255>>)
      [] v = "echs" -> RecordBytes(0, STARTING_CHS, ostype, MAX_ENDING_CHD, STARTING_LBA, MAX_SIZE_IN_LBA)
      [] v = "slba" -> RecordBytes(0, STARTING_CHS, ostype, ENDING_CHS, <<0, 0, 0, 2>>, <<0, 0, 255, 255>>)
      [] v = "size" -> RecordBytes(0, STARTING_CHS, ostype, ENDING_CHS, STARTING_LBA, MAX_SIZE_IN_LBA)
      [] OTHER -> ProtectiveRecord(ostype)

MbrVariants == {"none", "boot", "schs", "echs", "slba", "size", "disksig", "unknown", "sig", "code"}

\* A buffer of len >= 512 bytes in the layout of mbr.rs's offsets: the four
\* slots' OS types are os[1..4], and one field differs from the protective
\* values as v says.
MbrBuffer(len, os, v) ==
    [i \in 1..BOOT_CODE_SIZE |-> IF v = "code" THEN i % 256 ELSE 0]
    \o (IF v = "disksig" THEN <<0, 0, 0, 1>> ELSE DISK_SIGNATURE)
    \o (IF v = "unknown" THEN <<1, 0>> ELSE to_le_bytes(UNKNOWN))
    \o Record0Variant(v, os[1])
    \o ProtectiveRecord(os[2]) \o ProtectiveRecord(os[3]) \o ProtectiveRecord(os[4])
    \o (IF v = "sig" THEN <<85, 170>> ELSE to_le_bytes(MBR_SIGNATURE))
    \o Zeros(len - 512)

MbrInputs(L) ==
    { MbrBuffer(L, os, v) : os \in [1..PART_RECORD_NUM -> OsTypes], v \in MbrVariants }
    \cup { Slice(MbrBuffer(L, [i \in 1..PART_RECORD_NUM |-> OSTYPE], "none"), 0, n) :
             n \in {0, 439, 440, 443, 445, 446, 461, 509, 510, 511} }

\* ProtectiveMbr values as code inside the crate can build them (the
\* fields are private): record 0 with each combination of ending CHS and
\* size, records 1..3 alike, protective or carrying both sentinels.
RecordValue(echs, size) ==
    [boot_indicator |-> 0, starting_chs |-> STARTING_CHS, ostype |-> OSTYPE,
     ending_chs |-> echs, starting_lba |-> STARTING_LBA, size_in_lba |-> size]

ProtectiveMbrValues ==
    { [boot_code |-> Zeros(BOOT_CODE_SIZE), disk_signature |-> DISK_SIGNATURE, unknown |-> UNKNOWN,
       part_records |-> << RecordValue(echs, size), other, other, other >>,
       signature |-> MBR_SIGNATURE] :
        echs \in {ENDING_CHS, MAX_ENDING_CHD, <<255, 255, 0>>},
        size \in {<<0, 0, 255, 255>>, MAX_SIZE_IN_LBA, <<255, 255, 255, 254>>},
        other \in {RecordValue(ENDING_CHS, <<0, 0, 255, 255>>),
                   RecordValue(MAX_ENDING_CHD, MAX_SIZE_IN_LBA)} }

\* gpt.parser_mbr(&buffer)
ParseMbr ==
    /\ mpc = "idle"
    /\ \E d \in MbrInputs(lbs) :
        /\ mdata' = d
        /\ mbr' = parser_mbr(lbs, d)
    /\ mpc' = "parsed"
    /\ UNCHANGED <<lbs, large, hdrVars, uuidVars, tblVars>>

\* ProtectiveMbr { .. } built in the crate
BuildMbr ==
    /\ mpc = "idle"
    /\ \E v \in ProtectiveMbrValues : mbr' = Ok(v)
    /\ mpc' = "built"
    /\ UNCHANGED <<lbs, mdata, large, hdrVars, uuidVars, tblVars>>

\* mbr.is_large_disk()
IsLargeDisk ==
    /\ mpc \in {"parsed", "built"}
    /\ mbr.tag = "Ok"
    /\ large' = is_large_disk(mbr.val)
    /\ mpc' = "queried"
    /\ UNCHANGED <<lbs, mdata, mbr, hdrVars, uuidVars, tblVars>>

ResetMbr ==
    /\ mpc # "idle"
    /\ mpc' = "idle"
    /\ mdata' = << >>
    /\ mbr' = NoResult
    /\ large' = FALSE
    /\ UNCHANGED <<lbs, hdrVars, uuidVars, tblVars>>

NextMbr == ParseMbr \/ BuildMbr \/ IsLargeDisk \/ ResetMbr

SpecMbr == Init /\ [][NextMbr]_vars

-----------------------------------------------------------------------------
(* entry.rs: PartEntry and PartTableEntry *)

PART_TYPE_GUID_OFFSET == 0
PART_TYPE_GUID_SIZE == 16
PART_GUID_OFFSET == 16
PART_GUID_SIZE == 16
STARTING_LBA_OFFSET == 32
STARTING_LBA_SIZE == 8
ENDING_LBA_OFFSET == 40
ENDING_LBA_SIZE == 8
ATTRIBUTES_OFFSET == 48
ATTRIBUTES_SIZE == 8
PART_NAME_OFFSET == 56
PART_NAME_SIZE == 16

\* bytes[off..off + Len(src)].copy_from_slice(src) on a buffer that may
\* already be lost to a panic; the slice expression panics when it ends
\* beyond the buffer.
CopyIntoChecked(b, off, src) ==
    IF b.panic \/ off + Len(src) > Len(b.ret)
    THEN [panic |-> TRUE]
    ELSE [panic |-> FALSE, ret |-> CopyInto(b.ret, off, src)]

PartEntry_serialize_be(e, size) ==
    LET b0 == [panic |-> FALSE, ret |-> Zeros(size)]
        b1 == CopyIntoChecked(b0, PART_TYPE_GUID_OFFSET, e.part_type_guid)
        b2 == CopyIntoChecked(b1, PART_GUID_OFFSET, e.part_guid)
        b3 == CopyIntoChecked(b2, STARTING_LBA_OFFSET, e.starting_lba)
        b4 == CopyIntoChecked(b3, ENDING_LBA_OFFSET, to_le_bytes(e.ending_lba))
        b5 == CopyIntoChecked(b4, ATTRIBUTES_OFFSET, to_le_bytes(e.attributes))
    IN  CopyIntoChecked(b5, PART_NAME_OFFSET, e.name)

\* impl Serialize for PartEntry
PartEntry_serialize(e, size) ==
    LET b0 == [panic |-> FALSE, ret |-> Zeros(size)]
        b1 == CopyIntoChecked(b0, PART_TYPE_GUID_OFFSET, e.part_type_guid)
        b2 == CopyIntoChecked(b1, PART_GUID_OFFSET, e.part_guid)
        b3 == CopyIntoChecked(b2, STARTING_LBA_OFFSET, to_le_bytes(e.starting_lba))
        b4 == CopyIntoChecked(b3, ENDING_LBA_OFFSET, to_le_bytes(e.ending_lba))
        b5 == CopyIntoChecked(b4, ATTRIBUTES_OFFSET, to_le_bytes(e.attributes))
    IN  CopyIntoChecked(b5, PART_NAME_OFFSET, e.name)

\* impl Deserialize for PartEntry.  The two GUIDs are sliced from the
\* buffer at their offsets and the cursor is moved past them with skip;
\* the IF chain is the order in which the function returns or panics.
PartEntry_deserialize(d) ==
    LET l0 == From(d)
        part_type_guid == PartUUID_try_from(
                              Slice(d, PART_TYPE_GUID_OFFSET, PART_TYPE_GUID_OFFSET + UUID_SIZE))
        l1 == skip(l0, UUID_SIZE)
        part_guid == PartUUID_try_from(Slice(d, PART_GUID_OFFSET, PART_GUID_OFFSET + UUID_SIZE))
        l2 == skip(l1, UUID_SIZE)
        s3 == parse_u64(l2)                   \* start_lba
        s4 == parse_u64(s3.ltbs)              \* end_lba
        s5 == parse_u64(s4.ltbs)              \* attrs
        s6 == copy_from(s5.ltbs, PART_NAME_SIZE, PART_NAME_OFFSET)
    IN  IF PART_TYPE_GUID_OFFSET + UUID_SIZE > Len(d) THEN Panic
        ELSE IF part_type_guid.tag = "Err" THEN part_type_guid
        ELSE IF PART_GUID_OFFSET + UUID_SIZE > Len(d) THEN Panic
        ELSE IF part_guid.tag = "Err" THEN part_guid
        ELSE IF \E s \in {s3, s4, s5} : ~s.ret.some THEN Panic
        ELSE IF s6.panic THEN Panic
        ELSE Ok([part_type_guid |-> part_type_guid.val,
                 part_guid |-> part_guid.val,
                 starting_lba |-> s3.ret.val,
                 ending_lba |-> s4.ret.val,
                 attributes |-> s5.ret.val,
                 name |-> s6.ret])

\* The for loop of generate_part_entries from index on: the entries
\* decoded, or the first panic or error.
RECURSIVE PartEntriesFrom(_, _, _, _, _)
PartEntriesFrom(d, part_entry_size, part_entry_num, index, entries) ==
    IF index = part_entry_num THEN Ok([entries |-> entries])
    ELSE LET start == index * part_entry_size
             e == PartEntry_deserialize(Slice(d, start, start + part_entry_size))
         IN  IF start + part_entry_size > Len(d) THEN Panic
             ELSE IF e.tag # "Ok" THEN e
             ELSE PartEntriesFrom(d, part_entry_size, part_entry_num, index + 1,
                                  Append(entries, e.val))

generate_part_entries_round_up(d, part_entry_size) ==
    IF part_entry_size = 0 THEN Panic
    ELSE PartEntriesFrom(d, part_entry_size,
                         (Len(d) + part_entry_size - 1) \div part_entry_size, 0, << >>)

\* PartTableEntry::generate_part_entries; the division panics when
\* part_entry_size is 0
generate_part_entries(d, part_entry_size) ==
    IF part_entry_size = 0 THEN Panic
    ELSE PartEntriesFrom(d, part_entry_size, Len(d) \div part_entry_size, 0, << >>)

\* The for_each of serialize_part_entries from index on
RECURSIVE SerializeEntriesFrom(_, _, _, _)
SerializeEntriesFrom(self, part_entry_size, index, bytes) ==
    IF index = Len(self.entries) THEN bytes
    ELSE LET record == PartEntry_serialize(self.entries[index + 1], part_entry_size)
         IN  IF record.panic THEN [panic |-> TRUE]
             ELSE SerializeEntriesFrom(self, part_entry_size, index + 1,
                      CopyIntoChecked(bytes, index * part_entry_size, record.ret))

\* PartTableEntry::serialize_part_entries
serialize_part_entries(self, part_entry_size) ==
    SerializeEntriesFrom(self, part_entry_size, 0,
        [panic |-> FALSE, ret |-> Zeros(Len(self.entries) * part_entry_size)])

\* GuidPartTable::parse_part_table
parse_part_table(self_lbs, d, part_entry_size) == generate_part_entries(d, part_entry_size)

\* GuidPartTable::serialize_parse_entries
serialize_parse_entries(self_lbs, part_table, part_entry_size) ==
    serialize_part_entries(part_table, part_entry_size)

-----------------------------------------------------------------------------
(* Buffers handed to parse_part_table, and a caller of the facade's entry  *)
(* table operations                                                        *)

MaxEntries == 3

\* The 72 significant bytes of the i-th entry of a table; its type GUID
\* starts with 'Z', which try_from refuses, when bad
SampleEntryBytes(i, bad) ==
    [j \in 1..16 |-> IF bad /\ j = 1 THEN 90 ELSE 65 + ((i + j) % 25)]    \* part_type_guid
    \o [j \in 1..16 |-> 97 + ((i + j) % 25)]                              \* part_guid
    \o to_le_bytes(<<0, 0, 0, 0, 0, 0, i, 34>>)                           \* starting_lba
    \o to_le_bytes(<<0, 0, 0, 0, 0, 1, i, 33>>)                           \* ending_lba
    \o to_le_bytes(<<128, 0, 0, 0, 0, 0, 0, i>>)                          \* attributes
    \o [j \in 1..16 |-> 16 * i + j]                                       \* name

\* k slices of s bytes, the i-th holding the i-th entry (cut at s bytes
\* when s is below 72) and then bytes of value pad, followed by rem more
\* bytes
TableBuffer(k, s, rem, badAt, pad) ==
    [n \in 1..(k * s + rem) |->
        IF n > k * s THEN 7
        ELSE LET i == ((n - 1) \div s) + 1
                 o == (n - 1) % s
             IN  IF o < PART_NAME_OFFSET + PART_NAME_SIZE
                 THEN SampleEntryBytes(i, i = badAt)[o + 1]
                 ELSE pad]

EntrySizes == {72, 80, 128}
SmallEntrySizes == {0, 40, 71}

TableInputs ==
    { [d |-> TableBuffer(k, s, rem, badAt, pad), s |-> s] :
        k \in 0..MaxEntries, s \in EntrySizes \cup SmallEntrySizes, rem \in {0, 10},
        badAt \in 0..MaxEntries, pad \in {0, 255} }

\* gpt.parse_part_table(&buffer, part_entry_size)
ParsePartTable ==
    /\ tpc = "idle"
    /\ \E in \in TableInputs :
        /\ tdata' = in.d
        /\ tsize' = in.s
        /\ tbl' = parse_part_table(lbs, in.d, in.s)
    /\ tpc' = "parsed"
    /\ UNCHANGED <<lbs, tsize2, tout, tbl2, hdrVars, uuidVars, mbrVars>>

\* gpt.serialize_parse_entries(&table, part_entry_size) on the table just parsed
SerializePartEntries ==
    /\ tpc = "parsed"
    /\ tbl.tag = "Ok"
    /\ \E s \in EntrySizes \cup {71} :
        /\ tsize2' = s
        /\ tout' = serialize_parse_entries(lbs, tbl.val, s)
    /\ tpc' = "serialized"
    /\ UNCHANGED <<lbs, tdata, tsize, tbl, tbl2, hdrVars, uuidVars, mbrVars>>

\* gpt.parse_part_table(&encoded, part_entry_size)
ReparsePartTable ==
    /\ tpc = "serialized"
    /\ ~tout.panic
    /\ tbl2' = parse_part_table(lbs, tout.ret, tsize2)
    /\ tpc' = "reparsed"
    /\ UNCHANGED <<lbs, tdata, tsize, tbl, tsize2, tout, hdrVars, uuidVars, mbrVars>>

ResetTable ==
    /\ tpc # "idle"
    /\ tpc' = "idle"
    /\ tdata' = << >>
    /\ tsize' = 0
    /\ tbl' = NoResult
    /\ tsize2' = 0
    /\ tout' = NoResult
    /\ tbl2' = NoResult
    /\ UNCHANGED <<lbs, hdrVars, uuidVars, mbrVars>>

NextTbl == ParsePartTable \/ SerializePartEntries \/ ReparsePartTable \/ ResetTable

SpecTbl == Init /\ [][NextTbl]_vars

-----------------------------------------------------------------------------
(* The cursor reads of the four decoders, in program order.  A step is the *)
(* cursor operation called, the bytes it moves the cursor by, and the wire *)
(* offset the source declares for the field it reads.                      *)

UNKNOWN_OFFSET == 444
MBR_SIGNATURE_OFFSET == 510
BOOT_INDICATOR_OFFSET == 0
OSTYPE_OFFSET == 4
MBR_STARTING_LBA_OFFSET == 8
SIZE_IN_LBA_OFFSET == 12

Step(op, n, offset) == [op |-> op, n |-> n, offset |-> offset]

\* Header::deserialize
Header_steps ==
    << Step("copy_from", SIGNATURE_SIZE, SIGNATURE_OFFSET),
       Step("parse_u64", 8, SIGNATURE_OFFSET),          \* the value handed to check_signature
       Step("parse_u32", 4, REVISION_OFFSET),
       Step("parse_u32", 4, HDR_SIZE_OFFSET),
       Step("parse_u32", 4, HDR_CRC32_OFFSET),
       Step("parse_u32", 4, RESERVED_OFFSET),
       Step("parse_u64", 8, MYLBA_OFFSET),
       Step("parse_u64", 8, ALTERNATE_LBA_OFFSET),
       Step("parse_u64", 8, FIRST_USABLE_LBA_OFFSET),
       Step("parse_u64", 8, LAST_USABLE_LBA_OFFSET),
       Step("copy_from", DISK_GUID_SIZE, DISK_GUID_OFFSET),
       Step("parse_u64", 8, PARTITION_ENTRY_LBA_OFFSET),
       Step("parse_u32", 4, NUMBER_OF_PARTITION_ENTRIES_OFFSET),
       Step("parse_u32", 4, SIZE_OF_PARTITION_ENTRY_OFFSET),
       Step("parse_u32", 4, PARTITION_ENTRY_ARRAY_CRC32_OFFSET) >>

\* The number of those reads Header::deserialize has made when it returns
\* res: each ? of the function follows the read whose value it checks
Header_steps_made(res) ==
    IF res.tag = "Ok" THEN Len(Header_steps)
    ELSE IF res = Err("HdrSignature") THEN 2
    ELSE IF res = Err("HdrRevision") THEN 3
    ELSE IF res = Err("HdrSize") THEN 4
    ELSE IF res = Err("HdrCrc32") THEN 5
    ELSE IF res = Err("PartUUID") THEN 11
    ELSE 0

\* ProtectiveMbr::deserialize
ProtectiveMbr_steps ==
    << Step("copy_from", BOOT_CODE_SIZE, BOOT_CODE_OFFSET),
       Step("copy_from", DISK_SIGNATURE_SIZE, DISK_SIGNATURE_OFFSET),
       Step("parse_u16", 2, UNKNOWN_OFFSET) >>
    \o [index \in 1..PART_RECORD_NUM |->
           Step("copy_from", PART_RECORD_SIZE, PART_RECORD_OFFSET + PART_RECORD_SIZE * (index - 1))]
    \o << Step("parse_u16", 2, MBR_SIGNATURE_OFFSET) >>

\* MbrPartRecord::deserialize, on the 16 bytes of its record
MbrPartRecord_steps ==
    << Step("parse_u8", 1, BOOT_INDICATOR_OFFSET),
       Step("copy_from", STARTING_CHS_SIZE, STARTING_CHS_OFFSET),
       Step("parse_u8", 1, OSTYPE_OFFSET),
       Step("copy_from", ENDING_CHS_SIZE, ENDING_CHS_OFFSET),
       Step("parse_u32", 4, MBR_STARTING_LBA_OFFSET),
       Step("parse_u32", 4, SIZE_IN_LBA_OFFSET) >>

\* PartEntry::deserialize, on the bytes of its slice; the two GUIDs are
\* sliced at their offsets and then skipped
PartEntry_steps ==
    << Step("skip", UUID_SIZE, PART_TYPE_GUID_OFFSET),
       Step("skip", UUID_SIZE, PART_GUID_OFFSET),
       Step("parse_u64", 8, STARTING_LBA_OFFSET),
       Step("parse_u64", 8, ENDING_LBA_OFFSET),
       Step("parse_u64", 8, ATTRIBUTES_OFFSET),
       Step("copy_from", PART_NAME_SIZE, PART_NAME_OFFSET) >>

\* The cursor after the step, by the cursor's own operations
AfterStep(l, st) ==
    CASE st.op = "copy_from" -> copy_from(l, st.n, st.offset).ltbs
      [] st.op = "parse_u8" -> parse_u8(l).ltbs
      [] st.op = "parse_u16" -> parse_u16(l).ltbs
      [] st.op = "parse_u32" -> parse_u32(l).ltbs
      [] st.op = "parse_u64" -> parse_u64(l).ltbs
      [] st.op = "skip" -> skip(l, st.n)

\* The first made steps run from cursor l: for each, where the cursor
\* stood when it was called
RECURSIVE CursorReads(_, _, _, _)
CursorReads(l, steps, i, made) ==
    IF i > made THEN << >>
    ELSE << [op |-> steps[i].op, offset |-> steps[i].offset, cursor |-> l.cursor] >>
         \o CursorReads(AfterStep(l, steps[i]), steps, i + 1, made)

-----------------------------------------------------------------------------
(* A caller that decodes one structure at a time *)

DecodeHeader == mpc = "idle" /\ tpc = "idle" /\ ParseHeader

DecodeMbr == hpc = "idle" /\ tpc = "idle" /\ ParseMbr

DecodeTable == hpc = "idle" /\ mpc = "idle" /\ ParsePartTable

DropHeader == hpc = "parsed" /\ ResetHeader

DropMbr == mpc = "parsed" /\ ResetMbr

DropTable == tpc = "parsed" /\ ResetTable

NextDecode == DecodeHeader \/ DecodeMbr \/ DecodeTable \/ DropHeader \/ DropMbr \/ DropTable

SpecDecode == Init /\ [][NextDecode]_vars

-----------------------------------------------------------------------------
(* What the wire format says of a buffer, read at the offsets of hdr.rs *)

WireSignatureOk(d) == Len(d) >= 8 /\ Slice(d, SIGNATURE_OFFSET, SIGNATURE_OFFSET + SIGNATURE_SIZE) = EfiPart

WireRevisionOk(d) == LeWord(d, REVISION_OFFSET, 4) = REVISION

WireHeaderSize(d) == LeWord(d, HDR_SIZE_OFFSET, 4)

\* The CRC field holds the CRC-32 of the first header_size bytes, CRC field zeroed
WireCrcOk(d) ==
    /\ WordLeq(U32Of(HDR_CRC32_OFFSET + HDR_CRC32_SIZE), WireHeaderSize(d))
    /\ WordLeq(WireHeaderSize(d), U32Of(Len(d)))
    /\ LeWord(d, HDR_CRC32_OFFSET, 4) = HeaderCrc(d, WordToNat(WireHeaderSize(d)))

WireGuidOk(d) == PartUUID_try_from(Slice(d, DISK_GUID_OFFSET, DISK_GUID_OFFSET + DISK_GUID_SIZE)).tag = "Ok"

\* Signature, revision and CRC-32 right for the declared size, reserved
\* zero, disk GUID accepted: everything but the size's range
WireOtherwiseValid(d) ==
    /\ Len(d) >= MIN_HEADER_SIZE
    /\ WireSignatureOk(d)
    /\ WireRevisionOk(d)
    /\ LeWord(d, RESERVED_OFFSET, 4) = <<0, 0, 0, 0>>
    /\ WireGuidOk(d)
    /\ WireCrcOk(d)

\* C1: a buffer of lbs bytes in the wire layout with header_size 92, a
\* correct CRC-32, zero reserved field and an accepted disk GUID is decoded
\* by parse_header, and num_part_entries is the little-endian u32 at 80..84.
C1_WireHeaderDecodes ==
    ( /\ hpc = "parsed"
      /\ Len(data) = lbs
      /\ WireOtherwiseValid(data)
      /\ WireHeaderSize(data) = U32Of(MIN_HEADER_SIZE) )
    => /\ hdr.tag = "Ok"
       /\ hdr.val.num_part_entries = LeWord(data, NUMBER_OF_PARTITION_ENTRIES_OFFSET, 4)

\* C2: parse_header never returns a Header for a buffer whose first 8 bytes
\* are not "EFI PART".
C2_BadSignatureRejected ==
    (hpc = "parsed" /\ ~WireSignatureOk(data)) => hdr.tag # "Ok"

\* C3: an otherwise valid header is rejected with HdrSize when header_size
\* is 91 or lbs + 1, and accepted when it is 92 or lbs.
C3_HeaderSizeBounds ==
    (hpc = "parsed" /\ WireOtherwiseValid(data))
    => /\ WireHeaderSize(data) \in {U32Of(91), U32Of(lbs + 1)} => hdr = Err("HdrSize")
       /\ WireHeaderSize(data) \in {U32Of(92), U32Of(lbs)} => hdr.tag = "Ok"

\* The error the wire format's first failing check names, the checks taken
\* in the order signature, revision, header-size range, CRC-32
FirstFailingCheck(d, L) ==
    IF ~WireSignatureOk(d) THEN "HdrSignature"
    ELSE IF ~WireRevisionOk(d) THEN "HdrRevision"
    ELSE IF ~(WordLeq(U32Of(MIN_HEADER_SIZE), WireHeaderSize(d)) /\ WordLeq(WireHeaderSize(d), U32Of(L)))
    THEN "HdrSize"
    ELSE IF ~WireCrcOk(d) THEN "HdrCrc32"
    ELSE "none"

\* C4: header decode stops at the first failing check, in the order
\* signature, revision, header-size range, CRC-32, with that check's error.
C4_CheckOrder ==
    (hpc = "parsed" /\ Len(data) >= MIN_HEADER_SIZE /\ FirstFailingCheck(data, lbs) # "none")
    => hdr = Err(FirstFailingCheck(data, lbs))

\* C5: a decoded header, encoded by serialize_header and given a recomputed
\* CRC-32, decodes again to a header equal to it field for field.
C5_HeaderRoundTrip ==
    hpc = "reparsed" => hdr2 = hdr

\* What the code does instead on every round trip the model reaches
HeaderRoundTripFails ==
    hpc = "reparsed" => hdr2 = Err("HdrSignature")

\* What the code does instead with every buffer valid in the wire layout
WireValidRejected ==
    (hpc = "parsed" /\ WireOtherwiseValid(data)) => hdr = Err("HdrSignature")

-----------------------------------------------------------------------------
(* PartUUID *)

\* 'A'..='Z' or 'a'..='z'
IsAsciiLetter(c) == (65 <= c /\ c <= 90) \/ (97 <= c /\ c <= 122)

\* The characters of a text that are not hyphens
NonHyphen(s) == {i \in 1..Len(s) : s[i] # 45}

\* C6: the text shown for a PartUUID built from 16 letters parses back to a
\* PartUUID with the same 16 raw bytes.
C6_GuidRoundTrip ==
    upc = "reparsed" => parsed = Ok(raw)

\* What the code does instead with every text Display produces here
GuidRoundTripFails ==
    upc = "reparsed" => /\ parsed = Err("PartUUID")
                        /\ Cardinality(NonHyphen(text)) = 32

\* C7: try_from succeeds exactly on 16 bytes that are all ASCII letters,
\* keeps the bytes unchanged, and fails with the PartUUID error otherwise.
C7_TryFromLetters ==
    upc = "built"
    => IF Len(raw) = 16 /\ \A i \in 1..Len(raw) : IsAsciiLetter(raw[i])
       THEN uuid = Ok(raw)
       ELSE uuid = Err("PartUUID")

\* What the code does instead: 'Z' and 'z' are not accepted
TryFromExcludesZ ==
    upc = "built"
    => IF Len(raw) = 16 /\ \A i \in 1..Len(raw) : IsAsciiLetter(raw[i]) /\ raw[i] \notin {90, 122}
       THEN uuid = Ok(raw)
       ELSE uuid = Err("PartUUID")

\* C8: from_str succeeds only when exactly 32 characters remain without the
\* hyphens and each is an ASCII letter; any other count is rejected with
\* the PartUUID error.
C8_FromStrLength ==
    upc = "parsed"
    => /\ parsed.tag = "Ok" => /\ Cardinality(NonHyphen(text)) = 32
                               /\ \A i \in NonHyphen(text) : IsAsciiLetter(text[i])
       /\ Cardinality(NonHyphen(text)) # 32 => parsed = Err("PartUUID")

\* What the code does instead: 16 characters are required, 32 are rejected
FromStrWantsSixteen ==
    upc = "parsed" => /\ parsed.tag = "Ok" => Cardinality(NonHyphen(text)) = 16
                      /\ Cardinality(NonHyphen(text)) = 32 => parsed = Err("PartUUID")

-----------------------------------------------------------------------------
(* Protective MBR *)

\* The OS type byte of the record slot at offset 446 + 16 * slot, -1 when
\* the buffer ends before it
OsTypeByte(d, slot) == IF Len(d) > 446 + 16 * slot + 4 THEN d[446 + 16 * slot + 4 + 1] ELSE -1

C10_IsLargeDisk ==
    mpc = "queried"
    => (large <=> /\ mbr.val.part_records[1].ending_chs = <<255, 255, 255>>
                  /\ mbr.val.part_records[1].size_in_lba = <<255, 255, 255, 255>>)

\* C10's case: is_large_disk answered TRUE while records 1..3 hold neither
\* sentinel
C10_Witness ==
    /\ mpc = "queried"
    /\ large
    /\ \A i \in 2..4 : /\ mbr.val.part_records[i].ending_chs # <<255, 255, 255>>
                       /\ mbr.val.part_records[i].size_in_lba # <<255, 255, 255, 255>>

\* is_large_disk answered FALSE with exactly one of the two sentinels in record 0
OneSentinelNotLarge ==
    /\ mpc = "queried"
    /\ ~large
    /\ mbr.val.part_records[1].ending_chs = <<255, 255, 255>>
    /\ mbr.val.part_records[1].size_in_lba # <<255, 255, 255, 255>>

\* No decoded ProtectiveMbr is a large disk: decode requires ending CHS 00 02 00
DecodedNeverLarge ==
    (mpc = "queried" /\ mdata # << >>) => ~large

-----------------------------------------------------------------------------
(* Partition entry table *)

\* The slice of the i-th entry (counted from 0) of a table buffer
EntrySlice(d, s, i) == Slice(d, i * s, (i + 1) * s)

\* Both GUIDs of the i-th slice pass the GUID validation
EntryGuidsOk(d, s, i) ==
    /\ PartUUID_try_from(Slice(EntrySlice(d, s, i), 0, 16)).tag = "Ok"
    /\ PartUUID_try_from(Slice(EntrySlice(d, s, i), 16, 32)).tag = "Ok"

\* The entry whose fields are the bytes of the slice at the wire offsets
WireEntry(b) ==
    [part_type_guid |-> Slice(b, 0, 16),
     part_guid |-> Slice(b, 16, 32),
     starting_lba |-> LeWord(b, 32, 8),
     ending_lba |-> LeWord(b, 40, 8),
     attributes |-> LeWord(b, 48, 8),
     name |-> Slice(b, 56, 72)]

C12_TableRoundTrip ==
    /\ (tpc \in {"serialized", "reparsed"} /\ tsize2 >= 72)
       => /\ ~tout.panic
          /\ Len(tout.ret) = Len(tbl.val.entries) * tsize2
          /\ \A i \in 0..(Len(tbl.val.entries) - 1) :
               \A o \in 72..(tsize2 - 1) : tout.ret[i * tsize2 + o + 1] = 0
    /\ (tpc = "reparsed" /\ tsize2 >= 72)
       => /\ tbl2.tag = "Ok"
          /\ tbl2.val.entries = tbl.val.entries

\* C12's case: a table of three entries decoded from slices with non-zero
\* padding, encoded with another entry size and decoded again
C12_Witness ==
    /\ tpc = "reparsed"
    /\ Len(tbl.val.entries) = 3
    /\ tsize2 > 72
    /\ tsize2 # tsize
    /\ tsize > 72
    /\ tdata[73] = 255
    /\ tbl2 = tbl

-----------------------------------------------------------------------------
(* Header: the reserved field *)

\* C13: header decode rejects a header whose reserved field (bytes 20..24)
\* is not zero, so every Header parse_header returns has reserved = 0.
C13_ReservedZero ==
    (hpc = "parsed" /\ hdr.tag = "Ok")
    => /\ hdr.val.reserved = <<0, 0, 0, 0>>
       /\ LeWord(data, RESERVED_OFFSET, 4) = <<0, 0, 0, 0>>

\* What the code does instead: the four bytes the cursor reads as the
\* reserved field are carried into the Header whatever they hold
ReservedCarried ==
    (hpc = "parsed" /\ hdr.tag = "Ok") => hdr.val.reserved = LeWord(data, 28, 4)

\* A Header with reserved = 0xFFFFFFFF is returned
ReservedNonZeroAccepted ==
    /\ hpc = "parsed"
    /\ hdr.tag = "Ok"
    /\ hdr.val.reserved = <<255, 255, 255, 255>>

-----------------------------------------------------------------------------
(* Cursor synchronisation *)

\* Every read was called with the cursor at the field's declared offset
InSync(reads) == \A i \in 1..Len(reads) : reads[i].cursor = reads[i].offset

HeaderReads == CursorReads(From(data), Header_steps, 1, Header_steps_made(hdr))

MbrReads == CursorReads(From(mdata), ProtectiveMbr_steps, 1, Len(ProtectiveMbr_steps))

RecordReads(index) ==
    CursorReads(From(Slice(mdata, PART_RECORD_OFFSET + PART_RECORD_SIZE * index,
                           PART_RECORD_OFFSET + PART_RECORD_SIZE * (index + 1))),
                MbrPartRecord_steps, 1, Len(MbrPartRecord_steps))

EntryReads(i) == CursorReads(From(EntrySlice(tdata, tsize, i)), PartEntry_steps, 1, Len(PartEntry_steps))

\* C14: in every decoder, each typed read and each copy_from is called
\* with the cursor at the declared wire offset of the field it reads.
C14_CursorInSync ==
    /\ hpc = "parsed" => InSync(HeaderReads)
    /\ (mpc = "parsed" /\ mbr.tag = "Ok")
       => /\ InSync(MbrReads)
          /\ \A index \in 0..(PART_RECORD_NUM - 1) : InSync(RecordReads(index))
    /\ (tpc = "parsed" /\ tbl.tag = "Ok")
       => \A i \in 0..(Len(tbl.val.entries) - 1) : InSync(EntryReads(i))

\* What the code does instead: the header's second read, the u64 handed to
\* check_signature, is called with the cursor at 8, and the disk GUID is
\* copied from 56 with the cursor at 64; the other three decoders are in
\* sync
HeaderOutOfSync ==
    /\ (hpc = "parsed" /\ Header_steps_made(hdr) >= 2)
       => /\ HeaderReads[1].cursor = 0
          /\ HeaderReads[2] = [op |-> "parse_u64", offset |-> 0, cursor |-> 8]
          /\ \A i \in 3..Len(HeaderReads) : HeaderReads[i].cursor = HeaderReads[i].offset + 8
    /\ (mpc = "parsed" /\ mbr.tag = "Ok")
       => /\ InSync(MbrReads)
          /\ \A index \in 0..(PART_RECORD_NUM - 1) : InSync(RecordReads(index))
    /\ (tpc = "parsed" /\ tbl.tag = "Ok")
       => \A i \in 0..(Len(tbl.val.entries) - 1) : InSync(EntryReads(i))

-----------------------------------------------------------------------------
(* Decode totality *)

\* The call returned a value or a GptError
Returned(res) == res.tag \in {"Ok", "Err"}

\* C15: for every buffer, of any length, and every entry size, parse_header,
\* parser_mbr and parse_part_table return a value or a GptError; none of
\* them aborts.
C15_DecodeTotal ==
    /\ hpc = "parsed" => Returned(hdr)
    /\ mpc = "parsed" => Returned(mbr)
    /\ tpc = "parsed" => Returned(tbl)

\* parse_header aborts on the empty buffer
HeaderAborts == hpc = "parsed" /\ data = << >> /\ hdr = Panic

\* parser_mbr aborts on a buffer shorter than the 512 bytes of an MBR
MbrAborts == mpc = "parsed" /\ Len(mdata) < 512 /\ mbr = Panic

\* parse_part_table aborts on entry size 0
TableAbortsOnZero == tpc = "parsed" /\ tsize = 0 /\ tbl = Panic

\* parse_part_table aborts on an entry size below 72 with a whole slice in
\* the buffer
TableAbortsOnSmall ==
    tpc = "parsed" /\ tsize \in 32..71 /\ Len(tdata) >= tsize /\ tbl = Panic

\* What the code does instead: each decoder returns when the buffer holds
\* all the bytes its reads reach, and aborts when its first read is beyond
\* the buffer or the entry size is 0
AbortsWhenShort ==
    /\ (hpc = "parsed" /\ Len(data) < 16) => hdr = Panic
    /\ (hpc = "parsed" /\ Len(data) >= 100) => Returned(hdr)
    /\ (mpc = "parsed" /\ Len(mdata) < 440) => mbr = Panic
    /\ (mpc = "parsed" /\ Len(mdata) >= 512) => Returned(mbr)
    /\ (tpc = "parsed" /\ tsize = 0) => tbl = Panic
    /\ (tpc = "parsed" /\ tsize >= 72) => Returned(tbl)

=============================================================================
